---- MODULE Spec2Model ----
(***************************************************************************)
(* A model of WSLightServer (src/src/ws_light_server.cpp): the reader task *)
(* (setup_server, accept, handshake, message loop, teardown), the ping     *)
(* timer, the application's send calls, the frame codec and the callback   *)
(* registry.                                                               *)
(*                                                                         *)
(* Bytes are the integers 0..255.  An HTTP request is a sequence of        *)
(* lexical tokens: a multi-character token ("Sec-WebSocket-Key:",          *)
(* "\r\n") stands for that literal text, a key character is one token.     *)
(* SHA-1 and Base64 are library calls (mbedtls); they are kept symbolic.   *)
(***************************************************************************)
EXTENDS Integers, Sequences, FiniteSets, TLC

(* ------------------------------------------------------------------ *)
(* Bounds of the model                                                  *)
(* ------------------------------------------------------------------ *)
MaxFds == 3          \* descriptors the network stack can hand out
MaxFrames == 2       \* inbound recv results per connection before the peer goes away
MaxAppSends == 1     \* application send calls per connection
MaxPings == 1        \* ping timer expiries per connection
MaxIdle == 3         \* clock ticks counted while nothing arrives

(* ------------------------------------------------------------------ *)
(* Program constants                                                    *)
(* ------------------------------------------------------------------ *)
MAX_MESSAGE_SIZE == 24
HTTPD_WS_TYPE_CONTINUE == 0
HTTPD_WS_TYPE_TEXT == 1
HTTPD_WS_TYPE_BINARY == 2
HTTPD_WS_TYPE_CLOSE == 8
HTTPD_WS_TYPE_PING == 9
HTTPD_WS_TYPE_PONG == 10
ESP_OK == 0
ESP_FAIL == -1
NoSock == -1
NotCalled == 1

(* ------------------------------------------------------------------ *)
(* Byte arithmetic                                                      *)
(* ------------------------------------------------------------------ *)
RECURSIVE BitAnd(_, _)
BitAnd(a, b) ==
    IF a = 0 \/ b = 0 THEN 0
    ELSE ((a % 2) * (b % 2)) + 2 * BitAnd(a \div 2, b \div 2)

RECURSIVE BitOr(_, _)
BitOr(a, b) ==
    IF a = 0 THEN b
    ELSE IF b = 0 THEN a
    ELSE (IF (a % 2) + (b % 2) > 0 THEN 1 ELSE 0) + 2 * BitOr(a \div 2, b \div 2)

RECURSIVE BitXor(_, _)
BitXor(a, b) ==
    IF a = 0 THEN b
    ELSE IF b = 0 THEN a
    ELSE (((a % 2) + (b % 2)) % 2) + 2 * BitXor(a \div 2, b \div 2)

(* ------------------------------------------------------------------ *)
(* Handshake: request text, search, key extraction                      *)
(* ------------------------------------------------------------------ *)
CRLF == "\r\n"
GUID == "258EAFA5-E914-47DA-95CA-C5AB0DC85B11"
npos == 0

\* ::tolower applied to one token of the request
ToLowerTok(t) ==
    CASE t = "Sec-WebSocket-Key:" -> "sec-websocket-key:"
      [] t = "SEC-WEBSOCKET-KEY:" -> "sec-websocket-key:"
      [] t = "Upgrade:" -> "upgrade:"
      [] t = "WebSocket" -> "websocket"
      [] t = "G" -> "g"
      [] t = "Q" -> "q"
      [] OTHER -> t

\* std::transform(..., ::tolower)
ToLower(s) == [i \in 1..Len(s) |-> ToLowerTok(s[i])]

\* std::string::find(needle, from): first position >= from, npos when none
Find(hay, needle, from) ==
    LET hits == {i \in from..(Len(hay) - Len(needle) + 1) :
                    SubSeq(hay, i, i + Len(needle) - 1) = needle}
    IN IF hits = {} THEN npos
       ELSE CHOOSE i \in hits : \A j \in hits : i <= j

\* std::string::substr(pos, n) with n = npos - pos meaning "to the end"
Substr(s, pos, endPos) ==
    IF endPos = npos THEN SubSeq(s, pos, Len(s)) ELSE SubSeq(s, pos, endPos - 1)

\* mbedtls_sha1 and mbedtls_base64_encode, kept symbolic
SHA1(s) == <<"sha1", s>>
Base64(d) == <<"base64", d>>

KeyNeedle == <<"sec-websocket-key:", " ">>

\* send_handshake: what is written to the socket; sent = FALSE when nothing is
send_handshake(request) ==
    LET request_lower == ToLower(request)
        found == Find(request_lower, KeyNeedle, 1)
        key_start == found + Len(KeyNeedle)
        key_end == Find(request_lower, <<CRLF>>, key_start)
        key == Substr(request, key_start, key_end)
    IN IF found # npos
       THEN [sent |-> TRUE, status |-> 101,
             accept |-> Base64(SHA1(key \o <<GUID>>))]
       ELSE [sent |-> FALSE, status |-> 0, accept |-> Base64(SHA1(<<>>))]

\* get_client_info: defined by the source, called from nowhere
get_client_info(request) ==
    IF Find(ToLower(request), <<"upgrade:", " ", "websocket">>, 1) # npos
    THEN "HTTPD_WS_CLIENT_WEBSOCKET" ELSE "HTTPD_WS_CLIENT_HTTP"

(* ------------------------------------------------------------------ *)
(* Frame codec                                                          *)
(* ------------------------------------------------------------------ *)
Pow24 == 16777216
HeapCap == 4096      \* bytes pvPortMalloc can ever return in one block

\* DecodedMessage {void *data; size_t length}: null = TRUE is data == nullptr
NullMsg == [null |-> TRUE, data |-> <<>>, length |-> 0]
Msg(bytes) == [null |-> FALSE, data |-> bytes, length |-> Len(bytes)]

\* uint64_t payload_len as (upper five bytes, lower three bytes as a number)
Len64(hi, lo) == [hi |-> hi, lo |-> lo]
Zero5 == <<0, 0, 0, 0, 0>>

\* offset + 4 + payload_len in uint64_t arithmetic, compared with frame.size():
\* TRUE when frame.size() < (offset + 4 + payload_len) mod 2^64
TooShort(size, offset, pl) ==
    LET c == offset + 4
    IN IF pl.hi = Zero5 /\ pl.lo + c < Pow24 THEN size < pl.lo + c
       ELSE IF (\A i \in 1..5 : pl.hi[i] = 255) /\ pl.lo + c >= Pow24
            THEN size < (pl.lo + c) - Pow24        \* the sum wrapped around
            ELSE TRUE                               \* the sum is at least 2^24

\* pvPortMalloc(n): fails when the heap is exhausted (oom) or n cannot be served
MallocOk(pl, oom) == ~oom /\ pl.hi = Zero5 /\ pl.lo <= HeapCap

\* an unmasking that starts one byte into the key
Unmask_KeyShifted(frame, offset, n, mask_key) ==
    [i \in 1..n |-> BitXor(frame[offset + i], mask_key[(i % 4) + 1])]

\* frame[offset + i] ^ mask_key[i % 4], i = 0 .. payload_len - 1 (frame is 1-based here)
Unmask(frame, offset, n, mask_key) ==
    [i \in 1..n |-> BitXor(frame[offset + i], mask_key[((i - 1) % 4) + 1])]

\* allocs counts the pvPortMalloc calls that returned a block, frees the
\* vPortFree calls on a block (vPortFree(nullptr) does nothing).
\* decode_frame(frame, type) with accumulated_message = acc; oom1/oom2 say whether
\* the first/second pvPortMalloc fails.  typeSet = FALSE: `type` was not written.
\* beyond = TRUE: mask_key was copied from frame.begin() + offset .. + 4 although
\* the frame ends before offset + 4 (the length check passed because the sum
\* wrapped around); the bytes read are never used, the allocation fails next.
decode_frame(frame, acc, oom1, oom2) ==
    LET Reject(t, ts, a) ==
            [msg |-> NullMsg, type |-> t, typeSet |-> ts, acc |-> a, beyond |-> FALSE,
             allocs |-> 0, frees |-> 0]
    IN
    IF Len(frame) < 2 THEN Reject(0, FALSE, acc)
    ELSE
    LET first_byte == frame[1]
        second_byte == frame[2]
        fin == BitAnd(first_byte, 128) # 0
        type == BitAnd(first_byte, 15)
        masked == BitAnd(second_byte, 128) # 0
        len7 == BitAnd(second_byte, 127)
    IN
    IF len7 = 126 /\ Len(frame) < 4 THEN Reject(type, TRUE, acc)
    ELSE IF len7 = 127 /\ Len(frame) < 10 THEN Reject(type, TRUE, acc)
    ELSE
    LET payload_len ==
            IF len7 = 126 THEN Len64(Zero5, BitOr(frame[3] * 256, frame[4]))
            ELSE IF len7 = 127
                 THEN Len64(SubSeq(frame, 3, 7),
                            frame[8] * 65536 + frame[9] * 256 + frame[10])
                 ELSE Len64(Zero5, len7)
        offset == IF len7 = 126 THEN 4 ELSE IF len7 = 127 THEN 10 ELSE 2
    IN
    IF ~masked THEN Reject(type, TRUE, acc)
    ELSE IF TooShort(Len(frame), offset, payload_len) THEN Reject(type, TRUE, acc)
    ELSE
    LET mask_key == SubSeq(frame, offset + 1, offset + 4)
        empty == payload_len.hi = Zero5 /\ payload_len.lo = 0
    IN
    IF ~empty /\ ~MallocOk(payload_len, oom1)
    THEN [Reject(type, TRUE, acc) EXCEPT !.beyond = offset + 4 > Len(frame)]
    ELSE
    LET n == payload_len.lo
        message == IF empty THEN NullMsg
                   ELSE Msg(Unmask(frame, offset + 4, n, mask_key))
        got == IF empty THEN 0 ELSE 1        \* message was allocated
    IN
    IF fin
    THEN [msg |-> [null |-> message.null, data |-> message.data, length |-> n],
          type |-> type, typeSet |-> TRUE, acc |-> NullMsg, beyond |-> FALSE,
          allocs |-> got, frees |-> 0]
    ELSE IF ~acc.null
         THEN IF oom2
              THEN [Reject(type, TRUE, NullMsg) EXCEPT !.allocs = got, !.frees = 1]
              ELSE [Reject(type, TRUE, Msg(acc.data \o message.data))
                        EXCEPT !.allocs = got + 1, !.frees = 1 + got]
         ELSE [Reject(type, TRUE, message) EXCEPT !.allocs = got]

\* message_size >> s for size_t message_size, 32 bits wide on the target: a shift
\* by 32 or more is undefined; wide is what the build makes of it, "zero" (the
\* value is shifted out) or "mod32" (the shift unit takes the amount modulo 32)
ShiftOutcomes == {"zero", "mod32"}
ShiftRight(x, s, wide) ==
    IF s < 32 THEN x \div (2 ^ s)
    ELSE IF wide = "zero" THEN 0 ELSE x \div (2 ^ (s % 32))

\* the header encode_frame writes for a message of message_size bytes
encode_header(message_size, type, wide) ==
    LET first_byte == BitOr(128, BitAnd(type, 15))
    IN IF message_size <= 125 THEN <<first_byte, message_size>>
       ELSE IF message_size <= 65535
            THEN <<first_byte, 126, BitAnd(message_size \div 256, 255),
                   BitAnd(message_size, 255)>>
            ELSE <<first_byte, 127>> \o
                 [k \in 1..8 |->
                     BitAnd(ShiftRight(message_size, (8 - k) * 8, wide), 255)]

\* encode_frame(message, type): mask is the constant false, so the payload is
\* appended verbatim (both overloads have the same body).  Every message the
\* tasks of the model encode is shorter than 65536 bytes, where no shift reaches
\* 32 bits; the header of longer messages is taken from encode_header directly.
\* an encoder that masks as a client does
encode_frame_masking(message, type) ==
    LET h == encode_header(Len(message), type, "zero")
        key == <<55, 250, 33, 61>>
    IN <<h[1], h[2] + 128>> \o SubSeq(h, 3, Len(h)) \o key \o
       [i \in 1..Len(message) |-> BitXor(message[i], key[((i - 1) % 4) + 1])]

encode_frame(message, type) == encode_header(Len(message), type, "zero") \o message

(* ------------------------------------------------------------------ *)
(* What the peer and the embedder can supply                            *)
(* ------------------------------------------------------------------ *)
MaxAccLen == 3       \* bytes the peer lets pile up in non-final frames

\* a frame as a client writes it; form is the length encoding used: 7 (7-bit),
\* 16 (126 + 16-bit big-endian) or 64 (127 + 64-bit big-endian)
ClientFrame(fin, opcode, masked, mask_key, payload, form) ==
    LET n == Len(payload)
        b0 == (IF fin THEN 128 ELSE 0) + opcode
        m == IF masked THEN 128 ELSE 0
        hdr == CASE form = 7 -> <<b0, m + n>>
                 [] form = 16 -> <<b0, m + 126, n \div 256, n % 256>>
                 [] form = 64 -> <<b0, m + 127, 0, 0, 0, 0, 0, 0, n \div 256, n % 256>>
        body == IF masked
                THEN [i \in 1..n |-> BitXor(payload[i], mask_key[((i - 1) % 4) + 1])]
                ELSE payload
    IN hdr \o (IF masked THEN mask_key ELSE <<>>) \o body

MaskKey == <<55, 250, 33, 61>>
PayloadHi == <<104, 105>>
SmallPayloads == {<<>>, PayloadHi}

\* well-formed masked frames with fin = 1
FinalFrames ==
    {ClientFrame(TRUE, op, TRUE, MaskKey, p, 7) :
        op \in {HTTPD_WS_TYPE_TEXT, HTTPD_WS_TYPE_BINARY, HTTPD_WS_TYPE_CLOSE,
                HTTPD_WS_TYPE_PING, HTTPD_WS_TYPE_PONG},
        p \in SmallPayloads}

\* fragments, and the extended length forms
OtherFrames ==
    {ClientFrame(FALSE, HTTPD_WS_TYPE_TEXT, TRUE, MaskKey, PayloadHi, 7),
     ClientFrame(TRUE, HTTPD_WS_TYPE_CONTINUE, TRUE, MaskKey, PayloadHi, 7),
     ClientFrame(FALSE, HTTPD_WS_TYPE_CONTINUE, TRUE, MaskKey, <<104>>, 7),
     ClientFrame(TRUE, HTTPD_WS_TYPE_BINARY, TRUE, MaskKey, <<1, 2, 3>>, 16),
     ClientFrame(TRUE, HTTPD_WS_TYPE_BINARY, TRUE, MaskKey, <<4, 5, 6>>, 64)}

\* a single BINARY frame whose payload alone is larger than the receive buffer, and
\* what recv(client_sock, buffer, sizeof(buffer), 0) returns of it: the first
\* sizeof(buffer) bytes
OversizePayload == [i \in 1..(MAX_MESSAGE_SIZE + 1) |-> 7]
OversizeFrame == ClientFrame(TRUE, HTTPD_WS_TYPE_BINARY, TRUE, MaskKey, OversizePayload, 7)
OversizeRead == SubSeq(OversizeFrame, 1, MAX_MESSAGE_SIZE)

\* malformed, unknown or oversized input
BadFrames ==
    {<<129>>,
     ClientFrame(TRUE, HTTPD_WS_TYPE_TEXT, FALSE, MaskKey, PayloadHi, 7),
     SubSeq(ClientFrame(TRUE, HTTPD_WS_TYPE_TEXT, TRUE, MaskKey, PayloadHi, 7), 1, 7),
     ClientFrame(TRUE, 3, TRUE, MaskKey, PayloadHi, 7),
     <<130, 255, 255, 255, 255, 255, 255, 255, 255, 255, 1, 2, 3, 4>>,
     [i \in 1..MAX_MESSAGE_SIZE |-> 0],
     OversizeRead}

ClientFrames == FinalFrames \cup OtherFrames \cup BadFrames

\* the inputs of the specification in which all tasks run
CoreFrames ==
    {ClientFrame(TRUE, HTTPD_WS_TYPE_TEXT, TRUE, MaskKey, PayloadHi, 7),
     ClientFrame(TRUE, HTTPD_WS_TYPE_CLOSE, TRUE, MaskKey, PayloadHi, 7)}

Key24 == [i \in 1..24 |-> IF i % 2 = 1 THEN "d" ELSE "G"]
Key25 == Key24 \o <<"Q">>

Request(upgrade, keyHeader) ==
    <<"GET / HTTP/1.1", CRLF>> \o upgrade \o keyHeader \o <<CRLF>>

UpgradeHdr == <<"Upgrade:", " ", "WebSocket", CRLF>>

ReqGood == Request(UpgradeHdr, <<"Sec-WebSocket-Key:", " ">> \o Key24 \o <<CRLF>>)
ReqLowerNames == Request(<<"upgrade:", " ", "websocket", CRLF>>,
                         <<"sec-websocket-key:", " ">> \o Key24 \o <<CRLF>>)
ReqNoKey == Request(UpgradeHdr, <<>>)
ReqLongKey == Request(UpgradeHdr, <<"Sec-WebSocket-Key:", " ">> \o Key25 \o <<CRLF>>)
ReqNoUpgrade == Request(<<>>, <<"Sec-WebSocket-Key:", " ">> \o Key24 \o <<CRLF>>)
ReqNoSpace == Request(UpgradeHdr, <<"Sec-WebSocket-Key:">> \o Key24 \o <<CRLF>>)

Requests == {ReqGood, ReqLowerNames, ReqNoKey, ReqLongKey, ReqNoUpgrade, ReqNoSpace}
CoreRequests == {ReqGood, ReqNoKey}

\* payloads the application passes to sendTextMessage / sendBinaryMessage
AppPayloads == {PayloadHi, [i \in 1..(MAX_MESSAGE_SIZE + 1) |-> 0]}

CallbackNames == {"text", "binary", "ping", "pong", "close", "connected", "disconnected"}

(* ------------------------------------------------------------------ *)
(* State                                                                *)
(* ------------------------------------------------------------------ *)
VARIABLES
    pc,                 \* reader task: "off", "setup", "accept", "hs_recv", "loop",
                        \*   "cleanup_cb", "cleanup_close", "cleanup_reset", "dead"
    server_sock,        \* WSLightServer::server_sock
    client_sock,        \* WSLightServer::client_sock
    openSocks,          \* descriptors the network stack holds open
    ping_pong_enabled,  \* WSLightServer::ping_pong_enabled
    callbacks,          \* the registered std::function members
    start_ret,          \* what start() returned: NotCalled, ESP_OK, ESP_FAIL
    accumulated_message,\* static DecodedMessage accumulated_message
    ping_timer,         \* TRUE once xTimerStart succeeded
    ping_pc,            \* timer callback: "idle", "send"
    ping_log,           \* sends of the timer callback since the last accept
    npings,             \* timer expiries since the last accept
    app_pc,             \* application task: "idle", "send"
    app_frame,          \* frame the application task is about to hand to send()
    app_last,           \* outcome of the last sendTextMessage/sendBinaryMessage call
    app_log,            \* sends of the application task since the last accept
    nsends,             \* application send calls since the last accept
    cur,                \* descriptor returned by the last successful accept
    hs,                 \* request read and response written on this connection
    log,                \* reader task: callbacks, sends, closes since the last accept
    endReason,          \* why the message loop of this connection was left
    nframes,            \* recv results taken as frames on this connection
    idle,               \* clock ticks since the connection last received anything
    codec,              \* the last call of encode_frame / decode_frame made on its own
    lost                \* blocks the last pass of the message loop left allocated
                        \* without freeing them or keeping them in accumulated_message

sockVars == <<server_sock, client_sock, openSocks>>
cfgVars == <<ping_pong_enabled, callbacks, start_ret>>
pingVars == <<ping_timer, ping_pc, ping_log, npings>>
appVars == <<app_pc, app_frame, app_last, app_log, nsends, codec>>
connVars == <<cur, hs, log, endReason, nframes, idle>>

vars == <<pc, sockVars, cfgVars, accumulated_message, lost, pingVars, appVars, connVars>>

NoHs == [got |-> FALSE, req |-> <<>>, resp |-> send_handshake(<<>>)]
NoCall == [kind |-> "none", ret |-> ESP_OK, connected |-> FALSE, handed |-> FALSE]

\* the connection of the last accept is being or has been torn down
TornDown ==
    /\ cur # NoSock
    /\ \/ pc \in {"accept", "cleanup_cb", "cleanup_close", "cleanup_reset"}
       \/ pc = "loop" /\ client_sock # cur

\* one entry of a log; open says whether the descriptor was open at that moment,
\* ret is what send() did with the buffer ("ok", "partial" or "err"), torn whether
\* the teardown of the connection had begun
EvRet(ev, by, sock, data, ret) ==
    [ev |-> ev, by |-> by, sock |-> sock, data |-> data,
     open |-> sock \in openSocks, ret |-> ret, torn |-> TornDown]

Ev(ev, by, sock, data) ==
    EvRet(ev, by, sock, data, IF sock \in openSocks THEN "ok" ELSE "err")

\* the callback is invoked only when one is registered
Invoke(name, sock, data) ==
    IF name \in callbacks THEN <<Ev("on_" \o name, "reader", sock, data)>> ELSE <<>>

\* lowest free descriptor, as socket()/accept() hand them out; NoSock when none is left
FreeFd ==
    LET free == (1..MaxFds) \ openSocks
    IN IF free = {} THEN NoSock ELSE CHOOSE f \in free : \A g \in free : f <= g

\* the embedder registers in the order of the declarations and may stop anywhere
RegisterOrder == <<"text", "binary", "ping", "pong", "close", "connected", "disconnected">>
NextToRegister ==
    IF Cardinality(callbacks) < Len(RegisterOrder)
    THEN RegisterOrder[Cardinality(callbacks) + 1] ELSE "none"

\* WSLightServer::WSLightServer()
Init ==
    /\ pc = "off"
    /\ server_sock = NoSock
    /\ client_sock = NoSock
    /\ openSocks = {}
    /\ ping_pong_enabled = TRUE
    /\ callbacks = {}
    /\ start_ret = NotCalled
    /\ accumulated_message = NullMsg
    /\ ping_timer = FALSE
    /\ ping_pc = "idle"
    /\ ping_log = <<>>
    /\ npings = 0
    /\ app_pc = "idle"
    /\ app_frame = <<>>
    /\ app_last = NoCall
    /\ app_log = <<>>
    /\ nsends = 0
    /\ cur = NoSock
    /\ hs = NoHs
    /\ log = <<>>
    /\ endReason = "none"
    /\ nframes = 0
    /\ idle = 0
    /\ codec = [op |-> "none"]
    /\ lost = 0

(* ------------------------------------------------------------------ *)
(* The embedder: registration and start                                 *)
(* ------------------------------------------------------------------ *)
\* onTextMessage .. onClientConnected; the registry is filled before start
Register(name) ==
    /\ pc = "off"
    /\ name \in CallbackNames \ {"disconnected"}
    /\ name = NextToRegister
    /\ callbacks' = callbacks \cup {name}
    /\ UNCHANGED <<pc, sockVars, ping_pong_enabled, start_ret, accumulated_message, lost,
                   pingVars, appVars, connVars>>

\* onClientDisconnected: stores the callback and writes client_sock = -1
RegisterDisconnected ==
    /\ pc = "off"
    /\ NextToRegister = "disconnected"
    /\ callbacks' = callbacks \cup {"disconnected"}
    /\ client_sock' = NoSock
    /\ UNCHANGED <<pc, server_sock, openSocks, ping_pong_enabled, start_ret,
                   accumulated_message, lost, pingVars, appVars, connVars>>

\* the on...() functions called after start, from a task of the embedder: they
\* test nothing, and onClientDisconnected writes client_sock = -1 here as well
RegisterLate(name) ==
    /\ pc # "off"
    /\ name \in CallbackNames \ callbacks
    /\ callbacks' = callbacks \cup {name}
    /\ client_sock' = IF name = "disconnected" THEN NoSock ELSE client_sock
    /\ UNCHANGED <<pc, server_sock, openSocks, ping_pong_enabled, start_ret,
                   accumulated_message, lost, pingVars, appVars, connVars>>

\* start(): wifi_init returns ESP_OK (or aborts), then the reader task is created
Start(enable_ping_pong) ==
    /\ pc = "off"
    /\ ping_pong_enabled' = enable_ping_pong
    /\ pc' = "setup"
    /\ start_ret' = ESP_OK
    /\ UNCHANGED <<sockVars, callbacks, accumulated_message, lost, pingVars, appVars,
                   connVars>>

(* ------------------------------------------------------------------ *)
(* The reader task: handle_client                                       *)
(* ------------------------------------------------------------------ *)
\* setup_server: every failure ends in vTaskDelete(nullptr)
SetupServer(outcome) ==
    /\ pc = "setup"
    /\ outcome \in {"ok", "socket_fail", "bind_fail", "timer_fail"}
    /\ outcome = "timer_fail" => ping_pong_enabled
    /\ LET fd == FreeFd
       IN IF outcome = "socket_fail" \/ fd = NoSock
          THEN /\ server_sock' = NoSock
               /\ pc' = "dead"
               /\ UNCHANGED <<openSocks, ping_timer>>
          ELSE IF outcome = "ok"
               THEN /\ server_sock' = fd
                    /\ openSocks' = openSocks \cup {fd}
                    /\ ping_timer' = ping_pong_enabled
                    /\ pc' = "accept"
               ELSE /\ server_sock' = fd           \* close(server_sock), task deleted
                    /\ pc' = "dead"
                    /\ UNCHANGED <<openSocks, ping_timer>>
    /\ UNCHANGED <<client_sock, cfgVars, accumulated_message, lost, ping_pc, ping_log,
                   npings, appVars, connVars>>

\* handle_client_connection, lines 334-346: accept and the connected callback;
\* accept fails when the stack has no descriptor left (the logs and the observer
\* lost start anew with each connection)
Accept ==
    /\ pc = "accept"
    /\ LET fd == FreeFd
       IN /\ client_sock' = fd
          /\ IF fd = NoSock
             THEN UNCHANGED <<pc, openSocks, connVars, ping_log, npings, app_log,
                              nsends, lost>>
             ELSE /\ openSocks' = openSocks \cup {fd}
                  /\ cur' = fd
                  /\ hs' = NoHs
                  /\ log' = IF "connected" \in callbacks
                            THEN <<[ev |-> "on_connected", by |-> "reader", sock |-> fd,
                                    data |-> <<>>, open |-> TRUE, ret |-> "ok",
                                    torn |-> FALSE]>>
                            ELSE <<>>
                  /\ ping_log' = <<>>
                  /\ app_log' = <<>>
                  /\ endReason' = "none"
                  /\ nframes' = 0
                  /\ idle' = 0
                  /\ nsends' = 0
                  /\ npings' = 0
                  /\ lost' = 0
                  /\ pc' = "hs_recv"
    /\ UNCHANGED <<server_sock, cfgVars, accumulated_message, ping_timer, ping_pc,
                   app_pc, app_frame, app_last, codec>>

\* lines 348-355: the first recv fails; the socket is closed, client_sock keeps its value
HandshakeRecvError ==
    /\ pc = "hs_recv"
    /\ log' = log \o <<Ev("close", "reader", client_sock, <<>>)>>
    /\ openSocks' = openSocks \ {client_sock}
    /\ endReason' = "hs_err"
    /\ pc' = "accept"
    /\ UNCHANGED <<server_sock, client_sock, cfgVars, accumulated_message, lost, pingVars,
                   appVars, cur, hs, nframes, idle>>

\* lines 348-364: the first recv returns the request (empty when the peer closed
\* at once); send_handshake answers it or not; the message loop is entered
Handshake(request) ==
    /\ pc = "hs_recv"
    /\ client_sock \in openSocks
    /\ LET resp == send_handshake(request)
       IN /\ hs' = [got |-> TRUE, req |-> request, resp |-> resp]
          /\ log' = IF resp.sent
                    THEN log \o <<Ev("send101", "reader", client_sock, <<>>)>>
                    ELSE log
    /\ pc' = "loop"
    /\ idle' = 0
    /\ UNCHANGED <<sockVars, cfgVars, accumulated_message, lost, pingVars, appVars, cur,
                   endReason, nframes>>

\* lines 368-378: recv fails (also on a descriptor that is -1 or closed) or
\* returns 0; the loop is left and handle_client_connection returns
LoopRecvEnd(why) ==
    /\ pc = "loop"
    /\ why \in {"err", "eof"}
    /\ why = "eof" => client_sock \in openSocks
    /\ endReason' = why
    /\ pc' = "accept"
    /\ UNCHANGED <<sockVars, cfgVars, accumulated_message, lost, pingVars, appVars, cur, hs,
                   log, nframes, idle>>

\* sendTextMessage / sendBinaryMessage called from inside a callback, which runs on
\* the reader task: the log entries the call adds
SendFromCallback(payload, type) ==
    IF Len(payload) > MAX_MESSAGE_SIZE THEN <<>>
    ELSE IF client_sock > 0
         THEN <<Ev("send", "reader", client_sock, encode_frame(payload, type))>>
         ELSE <<>>

\* handle_ping: the PONG is sent first, then the ping callback runs
handle_ping(sock, decoded) ==
    <<Ev("send", "reader", sock, encode_frame(decoded.data, HTTPD_WS_TYPE_PONG))>>
    \o Invoke("ping", sock, <<>>)

\* process_message: the log entries it adds (cleanup_client_connection, which a
\* CLOSE frame calls next, is CleanupCallback .. CleanupReset).  echo says whether
\* the text/binary callback answers with a send call (examples/echo_server.cpp)
process_message(sock, decoded, type, echo) ==
    CASE type = HTTPD_WS_TYPE_CONTINUE -> <<>>
      [] type = HTTPD_WS_TYPE_TEXT ->
            Invoke("text", sock, decoded.data) \o
            (IF echo /\ "text" \in callbacks
             THEN SendFromCallback(decoded.data, HTTPD_WS_TYPE_TEXT) ELSE <<>>)
      [] type = HTTPD_WS_TYPE_BINARY ->
            Invoke("binary", sock, decoded.data) \o
            (IF echo /\ "binary" \in callbacks
             THEN SendFromCallback(decoded.data, HTTPD_WS_TYPE_BINARY) ELSE <<>>)
      [] type = HTTPD_WS_TYPE_PING -> handle_ping(sock, decoded)
      [] type = HTTPD_WS_TYPE_PONG -> Invoke("pong", sock, <<>>)
      [] type = HTTPD_WS_TYPE_CLOSE -> Invoke("close", sock, <<>>)
      [] OTHER -> <<>>

\* held: the blocks accumulated_message refers to.
\* vPortFree calls made for the decoded message: none when decoded.data is null
\* (the loop continues before process_message) and none for a continuation
\* frame (process_message returns at once); else the one at its end
held(acc) == IF acc.null THEN 0 ELSE 1

process_frees(decoded, type) ==
    IF decoded.null \/ type = HTTPD_WS_TYPE_CONTINUE THEN 0 ELSE 1

\* lines 368-395: recv returns len > 0 bytes, taken as one frame
LoopRecvFrame(frame, oom1, oom2, echo) ==
    /\ pc = "loop"
    /\ client_sock \in openSocks
    /\ nframes < MaxFrames
    /\ nframes' = nframes + 1
    /\ idle' = 0
    /\ IF Len(frame) >= MAX_MESSAGE_SIZE
       THEN /\ endReason' = "big"
            /\ pc' = "accept"
            /\ lost' = 0
            /\ UNCHANGED <<accumulated_message, log>>
       ELSE LET d == decode_frame(frame, accumulated_message, oom1, oom2)
            IN /\ Len(d.acc.data) <= MaxAccLen
               /\ accumulated_message' = d.acc
               /\ lost' = (d.allocs - d.frees - process_frees(d.msg, d.type))
                            - (held(d.acc) - held(accumulated_message))
               /\ UNCHANGED endReason
               /\ IF d.msg.null
                  THEN UNCHANGED <<pc, log>>          \* continue
                  ELSE /\ log' = log \o process_message(client_sock, d.msg, d.type, echo)
                       /\ pc' = IF d.type = HTTPD_WS_TYPE_CLOSE
                                THEN "cleanup_cb" ELSE "loop"
    /\ UNCHANGED <<sockVars, cfgVars, pingVars, appVars, cur, hs>>

\* cleanup_client_connection, lines 401-408: the disconnected callback, which may
\* itself call sendTextMessage (cbSends)
CleanupCallback(cbSends) ==
    /\ pc = "cleanup_cb"
    /\ cbSends => "disconnected" \in callbacks
    /\ log' = log \o Invoke("disconnected", client_sock, <<>>) \o
              (IF cbSends THEN SendFromCallback(PayloadHi, HTTPD_WS_TYPE_TEXT) ELSE <<>>)
    /\ pc' = "cleanup_close"
    /\ UNCHANGED <<sockVars, cfgVars, accumulated_message, lost, pingVars, appVars, cur, hs,
                   endReason, nframes, idle>>

\* cleanup_client_connection, line 410: close(client_sock)
CleanupClose ==
    /\ pc = "cleanup_close"
    /\ log' = log \o <<Ev("close", "reader", client_sock, <<>>)>>
    /\ openSocks' = openSocks \ {client_sock}
    /\ pc' = "cleanup_reset"
    /\ UNCHANGED <<server_sock, client_sock, cfgVars, accumulated_message, lost, pingVars,
                   appVars, cur, hs, endReason, nframes, idle>>

\* a cleanup after which the reader task returns instead of going on
CleanupReset_TaskExits ==
    /\ pc = "cleanup_reset"
    /\ client_sock' = NoSock
    /\ pc' = "dead"
    /\ UNCHANGED <<server_sock, openSocks, cfgVars, accumulated_message, lost, pingVars,
                   appVars, connVars>>

\* cleanup_client_connection, line 411: client_sock = -1; process_message frees the
\* payload and the loop goes on
CleanupReset ==
    /\ pc = "cleanup_reset"
    /\ client_sock' = NoSock
    /\ pc' = "loop"
    /\ UNCHANGED <<server_sock, openSocks, cfgVars, accumulated_message, lost, pingVars,
                   appVars, connVars>>

(* ------------------------------------------------------------------ *)
(* The ping timer and the application's send calls                      *)
(* ------------------------------------------------------------------ *)
\* send_ping, line 189: the timer fires and finds client_sock > 0
PingCheck ==
    /\ ping_timer
    /\ ping_pc = "idle"
    /\ npings < MaxPings
    /\ client_sock > 0
    /\ ping_pc' = "send"
    /\ npings' = npings + 1
    /\ UNCHANGED <<pc, sockVars, cfgVars, accumulated_message, lost, ping_timer, ping_log,
                   appVars, connVars>>

\* send_ping with the payload left in the frame buffer from an earlier message
PingSend_StalePayload ==
    /\ ping_pc = "send"
    /\ ping_log' = ping_log \o <<Ev("send", "ping", client_sock,
                                    encode_frame(PayloadHi, HTTPD_WS_TYPE_PING))>>
    /\ ping_pc' = "idle"
    /\ UNCHANGED <<pc, sockVars, cfgVars, accumulated_message, lost, ping_timer, npings,
                   appVars, connVars>>

\* send_ping, lines 191-192: encode_frame("", PING) goes to send(client_sock, ...)
PingSend ==
    /\ ping_pc = "send"
    /\ ping_log' = ping_log \o <<Ev("send", "ping", client_sock,
                                    encode_frame(<<>>, HTTPD_WS_TYPE_PING))>>
    /\ ping_pc' = "idle"
    /\ UNCHANGED <<pc, sockVars, cfgVars, accumulated_message, lost, ping_timer, npings,
                   appVars, connVars>>

\* the connection is OPEN: handshake answered with 101, socket open, message loop running
IsOpen ==
    /\ pc = "loop"
    /\ hs.resp.sent
    /\ cur \in openSocks
    /\ client_sock = cur

\* sendTextMessage / sendBinaryMessage up to the call of send(): the length check
\* and the test client_sock > 0
AppCall(kind, payload) ==
    /\ app_pc = "idle"
    /\ nsends < MaxAppSends
    /\ kind \in {"text", "binary"}
    /\ nsends' = nsends + 1
    /\ LET type == IF kind = "text" THEN HTTPD_WS_TYPE_TEXT ELSE HTTPD_WS_TYPE_BINARY
           call == [kind |-> kind, ret |-> ESP_OK, connected |-> IsOpen,
                    handed |-> FALSE]
       IN IF Len(payload) > MAX_MESSAGE_SIZE
          THEN /\ app_last' = [call EXCEPT !.ret = ESP_FAIL]
               /\ UNCHANGED <<app_pc, app_frame>>
          ELSE IF client_sock > 0
               THEN /\ app_pc' = "send"
                    /\ app_frame' = encode_frame(payload, type)
                    /\ app_last' = call
               ELSE /\ app_last' = call               \* return ESP_OK
                    /\ UNCHANGED <<app_pc, app_frame>>
    /\ UNCHANGED <<pc, sockVars, cfgVars, accumulated_message, lost, pingVars, app_log,
                   connVars, codec>>

\* a send path that writes the header and the payload in two send calls
AppSend_TwoCalls(outcome) ==
    /\ app_pc = "send"
    /\ outcome \in {"ok", "partial", "err"}
    /\ client_sock \notin openSocks => outcome = "err"
    /\ app_log' = app_log \o
                  <<EvRet("send", "app", client_sock, SubSeq(app_frame, 1, 2), outcome),
                    EvRet("send", "app", client_sock,
                          SubSeq(app_frame, 3, Len(app_frame)), outcome)>>
    /\ app_last' = [app_last EXCEPT
                      !.ret = IF outcome = "err" THEN ESP_FAIL ELSE ESP_OK,
                      !.handed = (outcome = "ok")]
    /\ app_pc' = "idle"
    /\ app_frame' = <<>>
    /\ UNCHANGED <<pc, sockVars, cfgVars, accumulated_message, lost, pingVars, nsends,
                   connVars, codec>>

\* send(client_sock, frame) and the return: ESP_FAIL only when send() < 0
AppSend(outcome) ==
    /\ app_pc = "send"
    /\ outcome \in {"ok", "partial", "err"}
    /\ client_sock \notin openSocks => outcome = "err"
    /\ app_log' = app_log \o <<EvRet("send", "app", client_sock, app_frame, outcome)>>
    /\ app_last' = [app_last EXCEPT
                      !.ret = IF outcome = "err" THEN ESP_FAIL ELSE ESP_OK,
                      !.handed = (outcome = "ok")]
    /\ app_pc' = "idle"
    /\ app_frame' = <<>>
    /\ UNCHANGED <<pc, sockVars, cfgVars, accumulated_message, lost, pingVars, nsends,
                   connVars, codec>>

(* ------------------------------------------------------------------ *)
(* sendVideoFrame: declared in ws_light_server.h, body not in the       *)
(* sources; written from the description of the fragmented send         *)
(* ------------------------------------------------------------------ *)
\* the chunk size: the size of the static frame buffer
F == MAX_MESSAGE_SIZE

\* one frame of a fragmented message: encode_frame's header with the fin bit given
encode_fragment(fin, type, chunk) ==
    <<(IF fin THEN 128 ELSE 0) + BitAnd(type, 15)>>
        \o Tail(encode_header(Len(chunk), type, "zero")) \o chunk

\* every fragment sent as a BINARY frame
RECURSIVE FragmentsAllBinary(_, _)
FragmentsAllBinary(rest, first) ==
    IF Len(rest) <= F
    THEN <<encode_fragment(TRUE, HTTPD_WS_TYPE_BINARY, rest)>>
    ELSE <<encode_fragment(FALSE, HTTPD_WS_TYPE_BINARY, SubSeq(rest, 1, F))>>
         \o FragmentsAllBinary(SubSeq(rest, F + 1, Len(rest)), FALSE)

\* chunks of F bytes: the first is BINARY, the following ones CONTINUATION, the
\* last one carries fin; a payload that fits one chunk is one final BINARY frame
RECURSIVE Fragments(_, _)
Fragments(rest, first) ==
    LET type == IF first THEN HTTPD_WS_TYPE_BINARY ELSE HTTPD_WS_TYPE_CONTINUE
    IN IF Len(rest) <= F
       THEN <<encode_fragment(TRUE, type, rest)>>
       ELSE <<encode_fragment(FALSE, type, SubSeq(rest, 1, F))>>
            \o Fragments(SubSeq(rest, F + 1, Len(rest)), FALSE)

\* payloads the application passes to sendVideoFrame; byte i is i
VideoPayloads ==
    {[i \in 1..n |-> i] : n \in {F, F + 1, 2 * F, 2 * F + 1}}

\* sendVideoFrame(data, length): fails when no client is OPEN, else writes the
\* fragments one after the other
sendVideoFrame(payload) ==
    /\ app_pc = "idle"
    /\ nsends < MaxAppSends
    /\ nsends' = nsends + 1
    /\ LET frames == Fragments(payload, TRUE)
       IN IF IsOpen
          THEN /\ app_log' = app_log \o
                      [i \in 1..Len(frames) |-> Ev("send", "app", client_sock, frames[i])]
               /\ app_last' = [kind |-> "video", ret |-> ESP_OK, connected |-> TRUE,
                               handed |-> TRUE]
          ELSE /\ app_last' = [kind |-> "video", ret |-> ESP_FAIL, connected |-> FALSE,
                               handed |-> FALSE]
               /\ UNCHANGED app_log
    /\ UNCHANGED <<pc, sockVars, cfgVars, accumulated_message, lost, pingVars, app_pc,
                   app_frame, connVars, codec>>

(* ------------------------------------------------------------------ *)
(* The codec on its own: encode_frame and decode_frame applied to       *)
(* payloads and frames of the protocol's sizes (in the reader above      *)
(* MAX_MESSAGE_SIZE is scaled down and keeps every frame short)          *)
(* ------------------------------------------------------------------ *)
CodecPayload(n) == [i \in 1..n |-> (i * 7) % 256]
CodecOpcodes == {HTTPD_WS_TYPE_TEXT, HTTPD_WS_TYPE_BINARY, HTTPD_WS_TYPE_CLOSE,
                 HTTPD_WS_TYPE_PING, HTTPD_WS_TYPE_PONG}

\* messages handed to encode_frame whole, and sizes whose header alone is encoded
EncodeMessages == {CodecPayload(n) : n \in {0, 1, 2, 125, 126, 200}}
EncodeSizes == {127, 65535, 65536, 65537, 70000, 16777216, 16909060}

\* masked final frames in every length form that can carry the payload
MaskedFrames ==
    LET combos == {c \in [op : {HTTPD_WS_TYPE_TEXT, HTTPD_WS_TYPE_BINARY,
                                 HTTPD_WS_TYPE_PING},
                          n : {0, 1, 2, 5, 125, 126, 200},
                          form : {7, 16, 64}] : c.form = 7 => c.n <= 125}
    IN {ClientFrame(TRUE, c.op, TRUE, MaskKey, CodecPayload(c.n), c.form) : c \in combos}

\* frames cut short by one byte
CutFrames ==
    {SubSeq(ClientFrame(TRUE, HTTPD_WS_TYPE_BINARY, TRUE, MaskKey, CodecPayload(n), form),
            1, n + (IF form = 16 THEN 7 ELSE 5)) : n \in {2, 5}, form \in {7, 16}}

\* 64-bit payload lengths near 2^64, for which offset + 4 + payload_len wraps
\* around: 2^64 - 14 in a frame of 10 and of 14 bytes, 2^64 - 1 in a frame of 10
\* and of 14 bytes
WrapFrames ==
    {<<130, 255, 255, 255, 255, 255, 255, 255, 255, 242>>,
     <<130, 255, 255, 255, 255, 255, 255, 255, 255, 242, 1, 2, 3, 4>>,
     <<130, 255, 255, 255, 255, 255, 255, 255, 255, 255>>,
     <<130, 255, 255, 255, 255, 255, 255, 255, 255, 255, 1, 2, 3, 4>>}

\* frames as encode_frame writes them, fed back to decode_frame
EncodedFrames ==
    {encode_frame(CodecPayload(n), op) :
        n \in {0, 2, 126}, op \in {HTTPD_WS_TYPE_TEXT, HTTPD_WS_TYPE_BINARY}}

DecodeFrames == MaskedFrames \cup CutFrames \cup WrapFrames \cup EncodedFrames

\* encode_frame(message, type)
Encode(message, type) ==
    /\ pc = "off"
    /\ codec' = [op |-> "encode", message |-> message, type |-> type,
                 out |-> encode_frame(message, type)]
    /\ UNCHANGED <<pc, sockVars, cfgVars, accumulated_message, lost, pingVars, app_pc,
                   app_frame, app_last, app_log, nsends, connVars>>

\* the header encode_frame writes for a message of message_size bytes
EncodeHeader(message_size, type, wide) ==
    /\ pc = "off"
    /\ codec' = [op |-> "header", size |-> message_size, type |-> type, wide |-> wide,
                 out |-> encode_header(message_size, type, wide)]
    /\ UNCHANGED <<pc, sockVars, cfgVars, accumulated_message, lost, pingVars, app_pc,
                   app_frame, app_last, app_log, nsends, connVars>>

\* a decoder that takes an unmasked frame as if it were masked with a zero key
Decode_AcceptUnmasked(frame, oom1) ==
    /\ pc = "off"
    /\ LET h == IF Len(frame) >= 2 /\ frame[2] = 126 THEN 4 ELSE 2
           zero == IF Len(frame) >= 2 /\ frame[2] < 127
                   THEN <<frame[1], frame[2] + 128>> \o SubSeq(frame, 3, h) \o
                        <<0, 0, 0, 0>> \o SubSeq(frame, h + 1, Len(frame))
                   ELSE frame
           d == decode_frame(zero, accumulated_message, oom1, FALSE)
       IN /\ codec' = [op |-> "decode", frame |-> frame, out |-> d]
          /\ accumulated_message' = d.acc
    /\ UNCHANGED <<pc, sockVars, cfgVars, lost, pingVars, app_pc, app_frame, app_last,
                   app_log, nsends, connVars>>

\* decode_frame(frame, type)
Decode(frame, oom1) ==
    /\ pc = "off"
    /\ LET d == decode_frame(frame, accumulated_message, oom1, FALSE)
       IN /\ codec' = [op |-> "decode", frame |-> frame, out |-> d]
          /\ accumulated_message' = d.acc
    /\ UNCHANGED <<pc, sockVars, cfgVars, lost, pingVars, app_pc, app_frame, app_last,
                   app_log, nsends, connVars>>

\* decode_frame followed by process_message, as lines 386-394 chain them
DecodeAndDispatch(frame) ==
    /\ pc = "off"
    /\ LET d == decode_frame(frame, accumulated_message, FALSE, FALSE)
       IN /\ codec' = [op |-> "dispatch", frame |-> frame,
                       out |-> IF d.msg.null THEN <<>>
                               ELSE process_message(client_sock, d.msg, d.type, FALSE)]
          /\ accumulated_message' = d.acc
    /\ UNCHANGED <<pc, sockVars, cfgVars, lost, pingVars, app_pc, app_frame, app_last,
                   app_log, nsends, connVars>>

(* ------------------------------------------------------------------ *)
(* Time                                                                 *)
(* ------------------------------------------------------------------ *)
\* start(): this->max_inactivity_ms = max_inactivity_ms, counted in clock ticks
max_inactivity == 1

\* a clock tick passes while the reader is blocked in recv() of an OPEN connection
\* and nothing arrives; recv has no timeout and no task reads max_inactivity_ms
Tick ==
    /\ IsOpen
    /\ idle < MaxIdle
    /\ idle' = idle + 1
    /\ UNCHANGED <<pc, sockVars, cfgVars, accumulated_message, lost, pingVars, appVars, cur,
                   hs, log, endReason, nframes>>

(* ------------------------------------------------------------------ *)
(* Specifications                                                       *)
(* ------------------------------------------------------------------ *)
EmbedderNext ==
    \/ \E name \in CallbackNames : Register(name)
    \/ RegisterDisconnected

ReaderNext(requests, frames) ==
    \/ \E e \in BOOLEAN : Start(e)
    \/ \E o \in {"ok", "socket_fail", "bind_fail", "timer_fail"} : SetupServer(o)
    \/ Accept
    \/ HandshakeRecvError
    \/ \E r \in requests \cup {<<>>} : Handshake(r)
    \/ \E why \in {"err", "eof"} : LoopRecvEnd(why)
    \/ \E f \in frames, oom1 \in BOOLEAN, oom2 \in BOOLEAN, echo \in BOOLEAN :
          LoopRecvFrame(f, oom1, oom2, echo)
    \/ \E cbSends \in BOOLEAN : CleanupCallback(cbSends)
    \/ CleanupClose
    \/ CleanupReset

OtherTasksNext ==
    \/ PingCheck
    \/ PingSend
    \/ \E k \in {"text", "binary"}, p \in AppPayloads : AppCall(k, p)
    \/ \E o \in {"ok", "partial", "err"} : AppSend(o)

\* all tasks: the reader task, the ping timer and an application task that sends,
\* with no callback registered (examples/basic_example.cpp), on the core inputs
Next == ReaderNext(CoreRequests, CoreFrames) \/ OtherTasksNext

Spec == Init /\ [][Next]_vars

\* the embedder's registrations and the reader task alone (the timer does not
\* expire, no other task sends), on every request and frame of the model
NextReader == EmbedderNext \/ ReaderNext(Requests, ClientFrames)

SpecReader == Init /\ [][NextReader]_vars

\* liveness: the reader task on the core inputs, the ping timer and the clock
NextLiveness == ReaderNext(CoreRequests, CoreFrames) \/ PingCheck \/ PingSend \/ Tick

SpecLiveness == Init /\ [][NextLiveness]_vars

\* the reader task on the core inputs and an application task that sends video frames
NextVideo ==
    \/ ReaderNext(CoreRequests, CoreFrames)
    \/ \E p \in VideoPayloads : sendVideoFrame(p)

SpecVideo == Init /\ [][NextVideo]_vars

\* the reader task alone on the core inputs and an unmasked frame, scheduled
\* fairly: the steps of cleanup_client_connection are taken once reached, and
\* recv on a descriptor that is closed or -1 returns (with an error)
NextFair ==
    ReaderNext(CoreRequests,
               CoreFrames \cup {ClientFrame(TRUE, HTTPD_WS_TYPE_TEXT, FALSE, MaskKey,
                                            PayloadHi, 7)})

RecvOnDeadSocket == LoopRecvEnd("err") /\ client_sock \notin openSocks

SpecFair ==
    /\ Init
    /\ [][NextFair]_vars
    /\ WF_vars(\E cbSends \in BOOLEAN : CleanupCallback(cbSends))
    /\ WF_vars(CleanupClose)
    /\ WF_vars(CleanupReset)
    /\ WF_vars(RecvOnDeadSocket)

\* TCP segmentation: what one recv of the message loop can return when the
\* client writes TEXT frames "hi": one frame, two frames coalesced, and a frame
\* split after its fifth byte; a CLOSE frame ends the session
TextHi == ClientFrame(TRUE, HTTPD_WS_TYPE_TEXT, TRUE, MaskKey, PayloadHi, 7)
Coalesced == TextHi \o TextHi
SplitFront == SubSeq(TextHi, 1, 5)
SplitBack == SubSeq(TextHi, 6, Len(TextHi))
Segments ==
    {TextHi, Coalesced, SplitFront, SplitBack,
     ClientFrame(TRUE, HTTPD_WS_TYPE_CLOSE, TRUE, MaskKey, PayloadHi, 7)}

\* the embedder's registrations and the reader task on these segments
NextSegments == EmbedderNext \/ ReaderNext(CoreRequests, Segments)

SpecSegments == Init /\ [][NextSegments]_vars

\* every producer of outbound frames at once: the reader task answering PING
\* frames, the ping timer and an application task that sends
PingFrames == {ClientFrame(TRUE, HTTPD_WS_TYPE_PING, TRUE, MaskKey, PayloadHi, 7)}

NextSenders ==
    \/ ReaderNext({ReqGood},
                  PingFrames \cup {ClientFrame(TRUE, HTTPD_WS_TYPE_CLOSE, TRUE, MaskKey,
                                               PayloadHi, 7)})
    \/ OtherTasksNext

SpecSenders == Init /\ [][NextSenders]_vars

\* the reader task on the core inputs and an embedder that registers its
\* callbacks while the server runs
NextRegister ==
    \/ ReaderNext(CoreRequests, CoreFrames)
    \/ \E name \in CallbackNames : RegisterLate(name)

SpecRegister == Init /\ [][NextRegister]_vars

\* the codec applied on its own
NextCodec ==
    \/ \E m \in EncodeMessages, t \in CodecOpcodes : Encode(m, t)
    \/ \E n \in EncodeSizes, t \in CodecOpcodes, w \in ShiftOutcomes :
          EncodeHeader(n, t, w)
    \/ \E f \in DecodeFrames, oom1 \in BOOLEAN : Decode(f, oom1)
    \/ \E f \in MaskedFrames : DecodeAndDispatch(f)

SpecCodec == Init /\ [][NextCodec]_vars

(* ------------------------------------------------------------------ *)
(* Properties                                                           *)
(* ------------------------------------------------------------------ *)
Count(l, name) == Len(SelectSeq(l, LAMBDA e : e.ev = name))
Sends(l) == SelectSeq(l, LAMBDA e : e.ev = "send")
EvNames(l, names) == [i \in 1..Len(SelectSeq(l, LAMBDA e : e.ev \in names)) |->
                         SelectSeq(l, LAMBDA e : e.ev \in names)[i].ev]

\* accepted client sockets that have not been closed
ClientSocks == openSocks \ {server_sock}

\* C1: at most one accepted client socket is open at any time.
C1_AtMostOneClientOpen == Cardinality(ClientSocks) <= 1

\* C2: when the message loop of an OPEN connection ended because recv returned 0
\* or failed, then by the time the reader is back at accept the client socket is
\* closed and on_disconnected has run exactly once for it.
C2_RecvEndTearsDown ==
    (pc = "accept" /\ hs.resp.sent /\ endReason \in {"eof", "err"}) =>
        /\ cur \notin openSocks
        /\ "disconnected" \in callbacks => Count(log, "on_disconnected") = 1

\* the request as the handshake section of the specification reads it
IsKeyName(t) == ToLowerTok(t) = "sec-websocket-key:"
HasKeyHeader(req) == \E i \in 1..Len(req) : IsKeyName(req[i])
KeyNameAt(req) == CHOOSE i \in 1..Len(req) : IsKeyName(req[i])
RECURSIVE SkipSpaces(_, _)
SkipSpaces(req, i) ==
    IF i <= Len(req) /\ req[i] = " " THEN SkipSpaces(req, i + 1) ELSE i
RECURSIVE UpToCRLF(_, _)
UpToCRLF(req, i) ==
    IF i > Len(req) \/ req[i] = CRLF THEN <<>>
    ELSE <<req[i]>> \o UpToCRLF(req, i + 1)
HeaderValue(req) == UpToCRLF(req, SkipSpaces(req, KeyNameAt(req) + 1))
HasUpgrade(req) ==
    \E i \in 1..Len(req) :
        /\ ToLowerTok(req[i]) = "upgrade:"
        /\ LET j == SkipSpaces(req, i + 1)
           IN j <= Len(req) /\ ToLowerTok(req[j]) = "websocket"
MustReject(req) ==
    \/ ~HasKeyHeader(req)
    \/ Len(HeaderValue(req)) > 24
    \/ ~HasUpgrade(req)

\* C3: a request without Sec-WebSocket-Key, with a key longer than 24 bytes or
\* without Upgrade: websocket gets no 101 response, its socket is closed and the
\* message loop is not entered for it.
C3_BadHandshakeRejected ==
    (hs.got /\ MustReject(hs.req)) =>
        /\ ~hs.resp.sent
        /\ cur \notin openSocks
        /\ pc \notin {"loop", "cleanup_cb", "cleanup_close", "cleanup_reset"}

\* C4: a request that carries a Sec-WebSocket-Key header is answered with the 101
\* response whose accept value is base64(sha1(key || GUID)), key being the header
\* value in its original letter case up to the next CRLF.
C4_AcceptForEveryKey ==
    (hs.got /\ HasKeyHeader(hs.req)) =>
        /\ hs.resp.sent
        /\ hs.resp.status = 101
        /\ hs.resp.accept = Base64(SHA1(HeaderValue(hs.req) \o <<GUID>>))

\* a final masked frame as a client writes it, 7-bit length form
FinalFrame(op, payload) == ClientFrame(TRUE, op, TRUE, MaskKey, payload, 7)
\* the reader takes this frame off the socket while the connection is OPEN
\* (both allocations of decode_frame succeed)
Receives(op, payload) ==
    /\ IsOpen
    /\ \E echo \in BOOLEAN : LoopRecvFrame(FinalFrame(op, payload), FALSE, FALSE, echo)
LastOf(l, name) ==
    SelectSeq(l, LAMBDA e : e.ev = name)[Len(SelectSeq(l, LAMBDA e : e.ev = name))]
DataCallback(op) == IF op = HTTPD_WS_TYPE_TEXT THEN "text" ELSE "binary"

\* C5: when a masked final TEXT or BINARY frame with a payload of any length from
\* 0 upward is received while OPEN, the registered callback of that type is invoked
\* exactly once with the unmasked payload and the connection stays OPEN.
C5_DataFrameDelivered ==
    [][\A op \in {HTTPD_WS_TYPE_TEXT, HTTPD_WS_TYPE_BINARY}, p \in SmallPayloads :
          (DataCallback(op) \in callbacks /\ Receives(op, p)) =>
              /\ Count(log', "on_" \o DataCallback(op))
                    = Count(log, "on_" \o DataCallback(op)) + 1
              /\ LastOf(log', "on_" \o DataCallback(op)).data = p
              /\ IsOpen']_vars

\* C6: when a PING frame with a payload of 0..125 bytes is received while OPEN,
\* exactly one PONG frame with the same payload is sent, on_ping is invoked and
\* the connection stays OPEN.
C6_PingAnswered ==
    [][\A p \in SmallPayloads :
          ("ping" \in callbacks /\ Receives(HTTPD_WS_TYPE_PING, p)) =>
              /\ Len(Sends(log')) = Len(Sends(log)) + 1
              /\ LastOf(log', "send").data = <<138, Len(p)>> \o p
              /\ LastOf(log', "send").sock = cur
              /\ Count(log', "on_ping") = Count(log, "on_ping") + 1
              /\ IsOpen']_vars

\* C7: once the teardown that a received CLOSE frame started has closed the
\* socket, the server has sent a CLOSE frame with an empty payload on that socket
\* before the close.
C7_CloseFrameSentBack ==
    pc = "cleanup_reset" =>
        \E i, j \in 1..Len(log) :
            /\ i < j
            /\ log[i].ev = "send" /\ log[i].data = <<136, 0>> /\ log[i].sock = cur
            /\ log[j].ev = "close" /\ log[j].sock = cur

\* C8: when a CLOSE frame is received while OPEN the teardown starts with on_close;
\* when the teardown closes the socket, on_close, on_disconnected and the close have
\* happened in that order, each exactly once.
C8_CloseSequence ==
    [][/\ \A p \in SmallPayloads :
             ({"close", "disconnected"} \subseteq callbacks
                 /\ Receives(HTTPD_WS_TYPE_CLOSE, p)) =>
                 /\ pc' = "cleanup_cb"
                 /\ Count(log', "on_close") = Count(log, "on_close") + 1
       /\ ({"close", "disconnected"} \subseteq callbacks /\ CleanupClose) =>
             EvNames(log', {"on_close", "on_disconnected", "close"})
                = <<"on_close", "on_disconnected", "close">>]_vars

\* C9: the client handle is none before on_disconnected returns, and no send call
\* made inside on_disconnected or afterwards transmits on the old socket.
C9_HandleResetBeforeDisconnected ==
    /\ ("disconnected" \in callbacks /\ pc = "cleanup_close") => client_sock = NoSock
    /\ \A i, j \in 1..Len(log) :
          (i < j /\ log[i].ev = "on_disconnected") => log[j].ev # "send"

\* C10: a sendTextMessage/sendBinaryMessage call made while no client is OPEN
\* returns failure and transmits nothing, and a call returns success only when the
\* whole frame was handed to the transport.
C10_SendNeedsOpenClient ==
    (app_pc = "idle" /\ app_last.kind # "none") =>
        /\ ~app_last.connected => (app_last.ret = ESP_FAIL /\ ~app_last.handed)
        /\ app_last.ret = ESP_OK => app_last.handed

\* isClientConnected(): declared in ws_light_server.h, its body is not part of the
\* sources; the handle is valid when it is not the sentinel
isClientConnected == client_sock # NoSock

\* C11: whenever the reader task is not serving a client (it is at accept, at the
\* start or after any teardown path) the client handle is the sentinel and
\* isClientConnected is false.
C11_HandleNoneWhenNotServing ==
    pc = "accept" => (client_sock = NoSock /\ ~isClientConnected)

\* C12: when the write made by sendTextMessage/sendBinaryMessage fails or is
\* short, the call returns failure and the connection is torn down: the client
\* socket is closed and the handle reset.
C12_SendErrorClosesConnection ==
    [][\A o \in {"partial", "err"} :
          AppSend(o) =>
              /\ app_last'.ret = ESP_FAIL
              /\ client_sock \notin openSocks'
              /\ client_sock' = NoSock]_vars

\* frames the protocol calls malformed: shorter than 2 bytes, shorter than the
\* declared header plus payload, mask bit unset
ShortFrame == <<129>>
TruncatedFrame == SubSeq(FinalFrame(HTTPD_WS_TYPE_TEXT, PayloadHi), 1, 7)
UnmaskedFrame == ClientFrame(TRUE, HTTPD_WS_TYPE_TEXT, FALSE, MaskKey, PayloadHi, 7)
MalformedFrames == {ShortFrame, TruncatedFrame, UnmaskedFrame}

\* C13: a malformed frame received while OPEN ends the connection: the reader
\* leaves the message loop and the connection is no longer OPEN.
C13_MalformedFrameCloses ==
    [][\A f \in MalformedFrames :
          (IsOpen /\ \E echo \in BOOLEAN : LoopRecvFrame(f, FALSE, FALSE, echo)) =>
              (pc' # "loop" /\ ~IsOpen')]_vars

\* C14: after an initial TEXT frame with fin = 0 (no callback for it), the final
\* CONTINUATION frame makes on_text run exactly once with the concatenation of
\* the fragments' payloads, and the reassembly buffer is empty afterwards.
C14_FragmentsReassembled ==
    [][/\ ("text" \in callbacks /\ IsOpen /\ nframes = 1
              /\ ~accumulated_message.null /\ accumulated_message.data = PayloadHi
              /\ Receives(HTTPD_WS_TYPE_CONTINUE, PayloadHi)) =>
              /\ Count(log', "on_text") = Count(log, "on_text") + 1
              /\ LastOf(log', "on_text").data = PayloadHi \o PayloadHi
              /\ accumulated_message'.null
       /\ (IsOpen /\ \E echo \in BOOLEAN :
              LoopRecvFrame(ClientFrame(FALSE, HTTPD_WS_TYPE_TEXT, TRUE, MaskKey,
                                        PayloadHi, 7), FALSE, FALSE, echo)) =>
              log' = log]_vars

\* C15: an OPEN connection on which nothing arrived for longer than
\* max_inactivity (one tick of grace for the check to run) is no longer OPEN.
C15_InactivityCloses ==
    IsOpen => idle <= max_inactivity + 1

\* C16: the timer sends a PING only while ping_pong is enabled and the connection
\* is OPEN (101 sent, socket open, not torn down).
C16_PingOnlyWhileOpen ==
    [][PingSend => (ping_pong_enabled /\ IsOpen)]_vars

\* the payload length a server frame of at most 125 payload bytes declares
DeclaredLen(frame) == BitAnd(frame[2], 127)

\* C17 (as claimed): every PING frame the timer emits carries a payload of
\* exactly 4 bytes.
C17_PingPayloadFourBytes ==
    \A i \in 1..Len(ping_log) :
        /\ DeclaredLen(ping_log[i].data) = 4
        /\ Len(ping_log[i].data) = 2 + 4

\* C17 (amended): every frame the timer emits is the 2-byte PING frame with an
\* empty payload: fin set, opcode 9, mask bit clear, length 0.
C17_PingPayloadEmpty ==
    \A i \in 1..Len(ping_log) :
        /\ ping_log[i].ev = "send"
        /\ ping_log[i].data = <<137, 0>>

C17_PingWasSent == ping_log # <<>> /\ ping_log[1].sock = cur

\* C18: when a PONG frame is received while OPEN (the echo of the timer's PING
\* has the PING's payload, which is empty), on_pong is invoked exactly once and
\* the connection stays OPEN.
C18_PongInvokesCallback ==
    [][\A p \in SmallPayloads :
          ("pong" \in callbacks /\ Receives(HTTPD_WS_TYPE_PONG, p)) =>
              /\ Count(log', "on_pong") = Count(log, "on_pong") + 1
              /\ IsOpen']_vars

\* C19: a single BINARY frame whose payload exceeds the receive buffer is
\* delivered: on_binary is invoked exactly once with the complete payload and the
\* connection stays OPEN.
C19_OversizeFrameDelivered ==
    [][("binary" \in callbacks /\ IsOpen
          /\ \E echo \in BOOLEAN : LoopRecvFrame(OversizeRead, FALSE, FALSE, echo)) =>
          /\ Count(log', "on_binary") = Count(log, "on_binary") + 1
          /\ LastOf(log', "on_binary").data = OversizePayload
          /\ IsOpen']_vars

\* a frame as the server writes it (payload of at most 125 bytes), read back
FrameFin(frame) == frame[1] >= 128
FrameOpcode(frame) == BitAnd(frame[1], 15)
FramePayload(frame) == SubSeq(frame, 3, Len(frame))
RECURSIVE ConcatPayloads(_)
ConcatPayloads(frames) ==
    IF frames = <<>> THEN <<>>
    ELSE FramePayload(Head(frames)) \o ConcatPayloads(Tail(frames))
CeilDiv(n, d) == (n + d - 1) \div d
\* the frames the step appended to the application task's log
NewFrames == [i \in 1..(Len(app_log') - Len(app_log)) |-> app_log'[Len(app_log) + i].data]

\* C20: for a payload of n > F bytes sendVideoFrame emits exactly ceil(n/F)
\* frames: the first BINARY, the following ones CONTINUATION, all but the last
\* with fin = 0, the last with fin = 1, each declaring the length of its chunk,
\* and the payloads concatenated give the input.
C20_VideoFrameFragments ==
    [][\A p \in VideoPayloads :
          (Len(p) > F /\ IsOpen /\ sendVideoFrame(p)) =>
              /\ Len(NewFrames) = CeilDiv(Len(p), F)
              /\ FrameOpcode(NewFrames[1]) = HTTPD_WS_TYPE_BINARY
              /\ \A i \in 2..Len(NewFrames) :
                    FrameOpcode(NewFrames[i]) = HTTPD_WS_TYPE_CONTINUE
              /\ \A i \in 1..Len(NewFrames) : FrameFin(NewFrames[i]) <=> i = Len(NewFrames)
              /\ \A i \in 1..Len(NewFrames) :
                    NewFrames[i][2] = Len(FramePayload(NewFrames[i]))
              /\ ConcatPayloads(NewFrames) = p]_vars

\* a payload of 2F + 1 bytes went out as three frames
C20_ThreeFragmentsSent ==
    /\ app_last.kind = "video"
    /\ Len(app_log) = 3
    /\ ~FrameFin(app_log[2].data)
    /\ FrameFin(app_log[3].data)

\* C21 as stated: decoding a frame the encoder produced for a text or binary
\* payload P gives back the opcode and P.
C21_RoundTrip ==
    (codec.op = "decode" /\ codec.frame \in EncodedFrames) =>
        \E n \in {0, 2, 126}, o \in {HTTPD_WS_TYPE_TEXT, HTTPD_WS_TYPE_BINARY} :
            /\ codec.frame = encode_frame(CodecPayload(n), o)
            /\ ~codec.out.msg.null
            /\ codec.out.msg.data = CodecPayload(n)
            /\ codec.out.type = o

\* C21, amended: decode_frame rejects every frame encode_frame produces (it
\* returns the null message): the encoder never sets the mask bit and the
\* decoder takes masked frames only.
C21_EncodedFrameRejected ==
    (codec.op = "decode" /\ codec.frame \in EncodedFrames) =>
        (codec.out.msg.null /\ codec.out.msg.length = 0)

C21_EncodedFrameDecoded ==
    /\ codec.op = "decode"
    /\ codec.frame = encode_frame(CodecPayload(126), HTTPD_WS_TYPE_BINARY)

\* C22: every frame encode_frame builds, for every opcode and payload length,
\* has the mask bit of its second byte clear and carries the payload bytes
\* unchanged right after the header, with nothing after them.
C22_ServerFramesUnmasked ==
    /\ codec.op = "encode" =>
          LET n == Len(codec.message)
              h == IF n <= 125 THEN 2 ELSE 4
          IN /\ codec.out[2] < 128
             /\ Len(codec.out) = h + n
             /\ SubSeq(codec.out, h + 1, h + n) = codec.message
    /\ codec.op = "header" => codec.out[2] < 128

C22_LongFrameEncoded ==
    /\ codec.op = "encode"
    /\ codec.type = HTTPD_WS_TYPE_BINARY
    /\ Len(codec.message) = 200

\* n as k big-endian bytes (k <= 4)
BigEndian(n, k) == [j \in 1..k |-> (n \div (256 ^ (k - j))) % 256]

\* the header C23 describes for a payload of n bytes (n < 2^31)
ExpectedHeader(n, type) ==
    <<128 + (type % 16)>> \o
    (IF n <= 125 THEN <<n>>
     ELSE IF n <= 65535 THEN <<126>> \o BigEndian(n, 2)
     ELSE <<127, 0, 0, 0, 0>> \o BigEndian(n, 4))

\* C23: the header written for a payload of n bytes is 2 bytes (n <= 125),
\* 4 bytes with 126 and n as 16-bit big-endian (n <= 65535), or 10 bytes with
\* 127 and n as 64-bit big-endian; byte 0 is 0x80 | (opcode & 0x0F).
C23_HeaderLayout ==
    /\ codec.op = "header" => codec.out = ExpectedHeader(codec.size, codec.type)
    /\ codec.op = "encode" =>
          LET h == ExpectedHeader(Len(codec.message), codec.type)
          IN SubSeq(codec.out, 1, Len(h)) = h

\* the header of a raw frame read as RFC 6455 lays it out: length of the part
\* before the mask key, and the declared payload length (64-bit form: the low
\* three bytes, the upper five being zero)
RawHeaderLen(f) ==
    LET l7 == f[2] % 128 IN IF l7 = 126 THEN 4 ELSE IF l7 = 127 THEN 10 ELSE 2
RawDeclared(f) ==
    LET l7 == f[2] % 128
    IN IF l7 = 126 THEN f[3] * 256 + f[4]
       ELSE IF l7 = 127 THEN f[8] * 65536 + f[9] * 256 + f[10]
       ELSE l7
RawUpperZero(f) == (f[2] % 128 = 127) => \A k \in 3..7 : f[k] = 0

\* C24: whenever decode_frame returns a payload for a masked frame, the payload
\* has the length the header declares (7-bit, 16-bit or 64-bit form) and byte i
\* is raw[i] XOR mask[i mod 4].
C24_UnmaskedPayload ==
    (codec.op = "decode" /\ ~codec.out.msg.null) =>
        LET f == codec.frame
            h == RawHeaderLen(f)
            P == RawDeclared(f)
        IN /\ f[2] >= 128
           /\ RawUpperZero(f)
           /\ codec.out.msg.length = P
           /\ Len(codec.out.msg.data) = P
           /\ \A i \in 0..(P - 1) :
                 codec.out.msg.data[i + 1] = BitXor(f[h + 4 + i + 1], f[h + (i % 4) + 1])

\* the 200-byte BINARY frame with header 126, 0x00, 0xC8 was decoded
C24_Extended16Decoded ==
    /\ codec.op = "decode"
    /\ ~codec.out.msg.null
    /\ SubSeq(codec.frame, 1, 4) = <<130, 254, 0, 200>>
    /\ codec.out.msg.length = 200

\* C25: when creating, binding or listening on the server socket has failed
\* (the reader task is gone and no listening socket is open), start has
\* returned a failure status.
C25_StartReportsSocketFailure ==
    (pc = "dead" /\ (server_sock = NoSock \/ ~ping_pong_enabled)) =>
        (start_ret = ESP_FAIL /\ server_sock \notin openSocks)

\* the connection of the reader has ended: the message loop or the handshake
\* was left (endReason), or a CLOSE frame is being or has been cleaned up
ConnectionEnded ==
    \/ endReason # "none"
    \/ pc \in {"cleanup_cb", "cleanup_close", "cleanup_reset"}
    \/ (pc = "loop" /\ client_sock \notin openSocks)

C27_CoalescedFramesBothDispatched ==
    [][(/\ IsOpen
        /\ "text" \in callbacks
        /\ \E echo \in BOOLEAN : LoopRecvFrame(Coalesced, FALSE, FALSE, echo)) =>
          Count(log', "on_text") = Count(log, "on_text") + 2]_vars

\* the bytes of one send call are exactly one final frame with a 7-bit length
CompleteFrame(d) ==
    /\ Len(d) >= 2
    /\ d[1] >= 128
    /\ d[2] <= 125
    /\ Len(d) = 2 + d[2]
\* l2 is l, or l with one more entry after it
Appended(l, l2) ==
    \/ l2 = l
    \/ (Len(l2) = Len(l) + 1 /\ SubSeq(l2, 1, Len(l)) = l)

C29_ControlFramesShort ==
    codec.op = "dispatch" =>
        \A i \in 1..Len(codec.out) :
            (codec.out[i].ev = "send" /\ (codec.out[i].data[1] % 16) >= 8) =>
                /\ codec.out[i].data[1] >= 128
                /\ codec.out[i].data[2] <= 125
                /\ Len(codec.out[i].data) <= 2 + 125

\* the frame holds its header, the mask key and the payload it declares, the sum
\* taken without overflow
FrameFits(f) ==
    /\ Len(f) >= 2
    /\ Len(f) >= RawHeaderLen(f)
    /\ RawUpperZero(f)
    /\ Len(f) >= RawHeaderLen(f) + 4 + RawDeclared(f)

\* C30: decode_frame returns a payload only for a buffer that holds header, mask
\* key and the declared payload (the sum computed without overflow, 64-bit
\* lengths near 2^64 included); any other frame is rejected and no byte beyond
\* the end of the buffer is read.
C30_NoReadBeyondFrame ==
    codec.op = "decode" =>
        /\ ~codec.out.msg.null => FrameFits(codec.frame)
        /\ ~FrameFits(codec.frame) => (codec.out.msg.null /\ ~codec.out.beyond)

\* C31: in every interleaving of the reader task with the ping timer and the
\* application's send calls, each send call was issued on a descriptor that was
\* open at that moment (never on one the server had already closed).
C31_SendOnlyOnOpenSocket ==
    \A l \in {log, ping_log, app_log} : \A i \in 1..Len(l) :
        l[i].ev = "send" => (l[i].open /\ l[i].sock \in 1..MaxFds)

\* C32: whenever the reader is about to read the next frame, every block the
\* pass over the previous frame allocated has been freed or is the one
\* accumulated_message refers to as the reassembly buffer, the block that was
\* the reassembly buffer before has not been dropped unfreed, and nothing was
\* freed twice (more frees than blocks).
C32_NoLeakOnReceivePath == lost = 0

\* C33: registering a callback changes only its registry entry: the client
\* handle, the server socket, the open descriptors and the state of the
\* connection are as before.
C33_RegisterChangesOnlyRegistry ==
    [][\A name \in CallbackNames :
          RegisterLate(name) =>
              /\ callbacks' = callbacks \cup {name}
              /\ client_sock' = client_sock
              /\ server_sock' = server_sock
              /\ openSocks' = openSocks
              /\ pc' = pc
              /\ IsOpen' = IsOpen]_vars

====
